---- MODULE Spec2Model ----
(***************************************************************************)
(* Cache-aside protocol of the flask todo service (src/app/app.py).        *)
(*                                                                         *)
(* The Record Store is the postgres table `todos`, the Cache Layer is the  *)
(* redis key 'all_todos'.  Every request handler is cut into its round     *)
(* trips (one store transaction step, one commit step, one cache command), *)
(* so that requests served concurrently interleave as they do in the       *)
(* running service.                                                        *)
(***************************************************************************)
EXTENDS Integers, Sequences, FiniteSets, TLC

\* ---------------------------------------------------------------- bounds
\* Ids the store's sequence hands out before the model stops creating rows.
MaxId == 1
\* Seconds that pass in one step of the clock.
TickStep == 30
\* The clock stops ageing an entry beyond this many seconds.
MaxAge == 90

\* Request workers: the requests that can be in flight at the same time.
Procs == {"p1", "p2"}

\* ------------------------------------------------------ program constants
\* redis_client.set(..., ex=60)
TTL == 60

\* ------------------------------------------------------------ data model
\* SQL NULL, python None, JSON null.
Null == "null"
\* A POST body that carries no 'title' key.
NoTitle == "<no title key>"
\* Values of the `completed` column: booleans, or NULL.
True == "true"
False == "false"

\* A python datetime, as the store returns it: seconds and microseconds.
NoStamp == [sec |-> 0, usec |-> 0]
\* Timestamps the store assigns to created_at.
Stamps == {[sec |-> 100, usec |-> 250]}

\* Timestamps of rows a table can hold: with a microsecond part and without.
RoundTripStamps ==
    {[sec |-> 100, usec |-> 250], [sec |-> 100, usec |-> 0],
     [sec |-> 101, usec |-> 0]}

\* "No row": cursor.fetchone() returning None, or an id without a row.
NoRow == [id |-> 0, title |-> Null, completed |-> Null, created_at |-> NoStamp]

\* INSERT INTO todos (title) VALUES (%s) RETURNING *: the store assigns the
\* id, and the columns the statement leaves out take their defaults.
InsertedRow(i, t, now) ==
    [id |-> i, title |-> t, completed |-> False, created_at |-> now]

\* UPDATE todos SET title = %s, completed = %s WHERE id = %s RETURNING *:
\* both columns are assigned, a key absent from the body arrives as NULL.
UpdatedRow(row, t, c) == [row EXCEPT !.title = t, !.completed = c]

\* SELECT * FROM todos: the visible rows, in the store's order.
RECURSIVE RowsFrom(_, _)
RowsFrom(st, i) ==
    IF i > MaxId THEN <<>>
    ELSE IF st[i] = NoRow THEN RowsFrom(st, i + 1)
         ELSE <<st[i]>> \o RowsFrom(st, i + 1)

\* Variant: the query filters, SELECT * FROM todos WHERE NOT completed.
RECURSIVE OpenRowsFrom(_, _)
OpenRowsFrom(st, i) ==
    IF i > MaxId THEN <<>>
    ELSE IF st[i] # NoRow /\ st[i].completed = False
         THEN <<st[i]>> \o OpenRowsFrom(st, i + 1)
         ELSE OpenRowsFrom(st, i + 1)

SelectOpen(st) == OpenRowsFrom(st, 1)

SelectAll(st) == RowsFrom(st, 1)

\* SELECT * FROM todos WHERE id = %s ... fetchone()
SelectById(st, i) == IF i \in DOMAIN st THEN st[i] ELSE NoRow

\* ---------------------------------------------------------- serialization
\* datetime.isoformat(): keeps the microseconds.
IsoFormat(d) == [fmt |-> "iso", sec |-> d.sec, usec |-> d.usec]

\* serialize_datetime, the default= hook of json.dumps.
SerializeDatetime(d) == IsoFormat(d)

\* werkzeug http_date, flask's own rendering of a datetime in jsonify:
\* RFC 822 text, whole seconds only.
HttpDate(d) == [fmt |-> "rfc822", sec |-> d.sec, usec |-> 0]

\* One row as json.dumps(..., default=serialize_datetime) writes it.
DumpRow(row) ==
    [id |-> row.id, title |-> row.title, completed |-> row.completed,
     created_at |-> SerializeDatetime(row.created_at)]

\* One row as jsonify writes it when handed the cursor's row.
FlaskRow(row) ==
    [id |-> row.id, title |-> row.title, completed |-> row.completed,
     created_at |-> HttpDate(row.created_at)]

\* json.dumps(todos, default=serialize_datetime): the text of a JSON array.
Dumps(rows) ==
    [tag |-> "array", rows |-> [i \in 1..Len(rows) |-> DumpRow(rows[i])]]

\* Texts that are not what Dumps writes: the empty string, and text that
\* json.loads rejects.
EmptyText == [tag |-> "empty", rows |-> <<>>]
Garbage == [tag |-> "garbage", rows |-> <<>>]

\* json.loads accepts the text.
WellFormed(text) == text.tag = "array"
\* json.loads(cached_todos): the list of JSON objects.
Loads(text) == text.rows

\* Response bodies.
JArray(items) == [kind |-> "array", items |-> items]
JObject(item) == [kind |-> "object", items |-> <<item>>]
JNull == [kind |-> "null", items |-> <<>>]
JMessage == [kind |-> "message", items |-> <<>>]
JError == [kind |-> "error", items |-> <<>>]

\* jsonify(todos) on the rows the cursor returned.
JsonifyRows(rows) == JArray([i \in 1..Len(rows) |-> FlaskRow(rows[i])])
\* jsonify(json.loads(cached_todos))
JsonifyCached(text) == JArray(Loads(text))
\* jsonify(json.loads(json.dumps(todo, default=serialize_datetime)))
JsonifyTodo(row) == IF row = NoRow THEN JNull ELSE JObject(DumpRow(row))

\* ----------------------------------------------------------------- state
VARIABLES
    store,      \* committed rows of `todos`: id -> row, NoRow where none
    nextId,     \* the id sequence of the table
    cache,      \* the redis key 'all_todos': Absent, or value/age/expiry
    cacheUp,    \* the cache engine answers
    storeUp,    \* the store accepts connections and runs statements
    pc,         \* where each worker stands in its handler
    op,         \* the request a worker serves
    pending,    \* the statement a worker's open transaction has executed
    conn,       \* a worker's store connection: none yet, open, in a
                \* transaction, closed by the handler, failed
    todos,      \* get_todos: the rows fetchall() returned
    resp,       \* the response a worker produced
    storeAcc,   \* store round trips of the request in hand
    cacheAcc,   \* cache round trips of the request in hand
    serial,     \* the clients send a request only after the last one ended
    staleRead,  \* history: a commit followed the worker's fetchall()
    lastMiss,   \* history: response of the miss that filled the entry
    expect,     \* history: lastMiss as the worker's probe found it
    probed,     \* history: what the worker's cache probe met
    filledStale,\* history: the entry was stored after a commit that
                \* followed the fetchall() it was serialized from
    expired     \* history: the entry ran out and was not stored again

shared == <<store, nextId, cache, cacheUp, storeUp, serial>>
locals == <<pc, op, pending, conn, todos, resp, storeAcc, cacheAcc>>
history == <<staleRead, lastMiss, expect, probed, filledStale, expired>>
vars == <<shared, locals, history>>

\* The key does not exist.
Absent == [val |-> EmptyText, age |-> -1, ex |-> 0]
NoBody == [kind |-> "none", items |-> <<>>]
NoOp == [name |-> "none", id |-> 0, title |-> Null, completed |-> Null]
NoPending == [kind |-> "none", row |-> NoRow]
NoResp == [status |-> 0, body |-> NoBody]
NoProbe == [how |-> "none", age |-> 0]
\* What a probe can meet: an entry (of some age), no key, a key that ran
\* out, the empty string, text json.loads rejects, an unreachable engine.
Probe(how, age) == [how |-> how, age |-> age]

Ids == 1..MaxId

\* The service after start-up: an empty table, no key, idle workers.
\* No entry under the key, both engines up, every worker idle.
Settled ==
    /\ cache = Absent
    /\ cacheUp = TRUE
    /\ storeUp = TRUE
    /\ pc = [p \in Procs |-> "idle"]
    /\ op = [p \in Procs |-> NoOp]
    /\ pending = [p \in Procs |-> NoPending]
    /\ conn = [p \in Procs |-> "none"]
    /\ todos = [p \in Procs |-> <<>>]
    /\ resp = [p \in Procs |-> NoResp]
    /\ storeAcc = [p \in Procs |-> 0]
    /\ cacheAcc = [p \in Procs |-> 0]
    /\ staleRead = [p \in Procs |-> FALSE]
    /\ lastMiss = NoBody
    /\ expect = [p \in Procs |-> NoBody]
    /\ probed = [p \in Procs |-> NoProbe]
    /\ filledStale = FALSE
    /\ expired = FALSE

\* An empty table.
Fresh ==
    /\ store = [i \in Ids |-> NoRow]
    /\ nextId = 1
    /\ Settled

Init == Fresh /\ serial = FALSE
InitSerial == Fresh /\ serial = TRUE

\* ------------------------------------------------------- cache commands
\* Variant: the hit test applied to the parsed list, whose emptiness is falsy.
IsHitNonEmptyList(c) ==
    c # Absent /\ c.val.tag = "array" /\ Len(c.val.rows) > 0

\* if cached_todos and isinstance(cached_todos, str): None and the empty
\* string are falsy; decode_responses=True makes every reply a str.
IsHit(c) == c # Absent /\ c.val # EmptyText

\* Variant: the write path leaves the key alone.
InvalidateSkipped == cache' = cache

\* Variant: the write path rewrites the entry in place from the table.
InvalidateByRewrite ==
    cache' = IF cache = Absent THEN Absent
             ELSE [cache EXCEPT !.val = Dumps(RowsFrom(store, 1))]

\* get_redis_client().delete('all_todos')
InvalidateCache == cache' = Absent

\* Variant: the entry is stored without ex=.
SetCacheNoExpiry(text) == cache' = [val |-> text, age |-> 0, ex |-> 0]

\* Variant: the entry is stored with an expiry of twice the lifetime.
SetCacheLongExpiry(text) ==
    cache' = [val |-> text, age |-> 0, ex |-> TTL + TTL]

\* redis_client.set('all_todos', text, ex=60)
SetCache(text) == cache' = [val |-> text, age |-> 0, ex |-> TTL]

\* --------------------------------------------------------- store helpers
\* The row lock an uncommitted UPDATE or DELETE holds on row i.
RowLocked(p, i) ==
    \E q \in Procs \ {p} :
        /\ conn[q] = "tx"
        /\ pending[q].kind \in {"update", "delete"}
        /\ pending[q].row.id = i

\* conn.commit(): the statement of the transaction becomes visible.
Committed(st, pd) ==
    IF pd.kind \in {"insert", "update"} THEN [st EXCEPT ![pd.row.id] = pd.row]
    ELSE IF pd.kind = "delete" THEN [st EXCEPT ![pd.row.id] = NoRow]
    ELSE st

\* ------------------------------------------------------ request framing
InFlight(q) == pc[q] \notin {"idle", "done"}

\* A response is handed to its client before any worker takes another
\* step: the state in which a worker is "done" shows the finished request.
Delivered == \A q \in Procs : pc[q] # "done"

\* A worker takes a request: flask dispatches it to the handler.
Begin(p, o) ==
    /\ Delivered
    /\ pc[p] = "idle"
    /\ serial => \A q \in Procs : ~InFlight(q)
    /\ op' = [op EXCEPT ![p] = o]

\* The handler returns (or raises): the response leaves the worker.
Reply(p, status, body) ==
    /\ pc' = [pc EXCEPT ![p] = "done"]
    /\ resp' = [resp EXCEPT ![p] = [status |-> status, body |-> body]]

\* get_db_connection() or a statement raises: the exception leaves the
\* handler and flask answers 500.
StoreError(p) ==
    /\ conn' = [conn EXCEPT ![p] = "failed"]
    /\ Reply(p, 500, JError)

\* A statement of a write handler: what the writer does since the last miss.
WriteStep == lastMiss' = NoBody

\* --------------------------------------------------------------- list()
\* get_todos, lines 113-117: probe the cache, answer from it on a hit.
ListProbe(p) ==
    /\ Begin(p, [NoOp EXCEPT !.name = "list"])
    /\ cacheAcc' = [cacheAcc EXCEPT ![p] = 1]
    /\ expect' = [expect EXCEPT ![p] = lastMiss]
    /\ IF ~cacheUp
       THEN \* redis.ConnectionError leaves the handler
            /\ Reply(p, 500, JError)
            /\ probed' = [probed EXCEPT ![p] = Probe("unreachable", 0)]
       ELSE IF IsHit(cache)
       THEN IF WellFormed(cache.val)
            THEN /\ Reply(p, 200, JsonifyCached(cache.val))
                 /\ probed' = [probed EXCEPT ![p] = Probe("entry", cache.age)]
            ELSE \* json.JSONDecodeError leaves the handler
                 /\ Reply(p, 500, JError)
                 /\ probed' = [probed EXCEPT ![p] = Probe("malformed", cache.age)]
       ELSE /\ pc' = [pc EXCEPT ![p] = "l_select"]
            /\ probed' = [probed EXCEPT ![p] =
                  IF cache # Absent THEN Probe("empty", cache.age)
                  ELSE IF expired THEN Probe("expired", 0)
                  ELSE Probe("absent", 0)]
            /\ UNCHANGED resp
    /\ UNCHANGED <<shared, pending, conn, todos, storeAcc,
                   staleRead, lastMiss, filledStale, expired>>

\* Variant: the handler catches the store error and goes on with no rows.
ListSelectSwallows(p) ==
    /\ Delivered
    /\ pc[p] = "l_select"
    /\ todos' = [todos EXCEPT ![p] = IF storeUp THEN SelectAll(store) ELSE <<>>]
    /\ storeAcc' = [storeAcc EXCEPT ![p] = IF storeUp THEN @ + 1 ELSE @]
    /\ conn' = [conn EXCEPT ![p] = IF storeUp THEN "closed" ELSE "failed"]
    /\ pc' = [pc EXCEPT ![p] = "l_set"]
    /\ staleRead' = [staleRead EXCEPT ![p] = FALSE]
    /\ UNCHANGED <<shared, op, pending, resp, cacheAcc,
                   lastMiss, expect, probed, filledStale, expired>>

\* get_todos, lines 119-124: SELECT * FROM todos, fetchall(), close.
ListSelect(p) ==
    /\ Delivered
    /\ pc[p] = "l_select"
    /\ IF storeUp
       THEN /\ todos' = [todos EXCEPT ![p] = SelectAll(store)]
            /\ storeAcc' = [storeAcc EXCEPT ![p] = @ + 1]
            /\ conn' = [conn EXCEPT ![p] = "closed"]
            /\ pc' = [pc EXCEPT ![p] = "l_set"]
            /\ UNCHANGED resp
       ELSE \* psycopg2.OperationalError leaves the handler
            /\ StoreError(p)
            /\ UNCHANGED <<todos, storeAcc>>
    /\ staleRead' = [staleRead EXCEPT ![p] = FALSE]
    /\ UNCHANGED <<shared, op, pending, cacheAcc,
                   lastMiss, expect, probed, filledStale, expired>>

\* get_todos, lines 126-127: store the serialized rows, answer with the rows.
ListSet(p) ==
    /\ Delivered
    /\ pc[p] = "l_set"
    /\ cacheAcc' = [cacheAcc EXCEPT ![p] = @ + 1]
    /\ IF cacheUp
       THEN /\ SetCache(Dumps(todos[p]))
            /\ Reply(p, 200, JsonifyRows(todos[p]))
            /\ lastMiss' = JsonifyRows(todos[p])
            /\ filledStale' = staleRead[p]
            /\ expired' = FALSE
       ELSE \* redis.ConnectionError leaves the handler
            /\ Reply(p, 500, JError)
            /\ UNCHANGED <<cache, lastMiss, filledStale, expired>>
    /\ staleRead' = [staleRead EXCEPT ![p] = FALSE]
    /\ UNCHANGED <<store, nextId, cacheUp, storeUp, serial, op, pending, conn, todos,
                   storeAcc, expect, probed>>

\* ------------------------------------------------------------- create()
\* create_todo, lines 96-101: connect, INSERT ... RETURNING *, fetchone().
CreateExec(p, t) ==
    /\ Begin(p, [NoOp EXCEPT !.name = "create", !.title = t])
    /\ WriteStep
    /\ IF ~storeUp
       THEN \* get_db_connection() raises before data['title'] is read
            /\ StoreError(p)
            /\ UNCHANGED <<nextId, pending, storeAcc>>
       ELSE IF t = NoTitle
       THEN \* data['title'] raises KeyError with the connection open
            /\ conn' = [conn EXCEPT ![p] = "open"]
            /\ Reply(p, 500, JError)
            /\ UNCHANGED <<nextId, pending, storeAcc>>
       ELSE /\ nextId <= MaxId
            /\ \E now \in Stamps :
                 pending' = [pending EXCEPT ![p] =
                     [kind |-> "insert", row |-> InsertedRow(nextId, t, now)]]
            /\ nextId' = nextId + 1
            /\ conn' = [conn EXCEPT ![p] = "tx"]
            /\ storeAcc' = [storeAcc EXCEPT ![p] = @ + 1]
            /\ pc' = [pc EXCEPT ![p] = "c_commit"]
            /\ UNCHANGED resp
    /\ UNCHANGED <<store, cache, cacheUp, storeUp, serial, todos, cacheAcc,
                   staleRead, expect, probed, filledStale, expired>>

\* Variant: the handler goes on to the cache with its transaction open.
CommitSkipped(p, next) ==
    /\ Delivered
    /\ pc' = [pc EXCEPT ![p] = next]
    /\ WriteStep
    /\ UNCHANGED <<shared, op, pending, conn, todos, resp, storeAcc, cacheAcc,
                   staleRead, expect, probed, filledStale, expired>>

\* conn.commit(); cursor.close(); conn.close() of a write handler.
Commit(p, next) ==
    /\ Delivered
    /\ IF storeUp
       THEN /\ store' = Committed(store, pending[p])
            /\ conn' = [conn EXCEPT ![p] = "closed"]
            /\ pc' = [pc EXCEPT ![p] = next]
            /\ UNCHANGED resp
       ELSE \* conn.commit() raises; the store drops the transaction
            /\ StoreError(p)
            /\ UNCHANGED store
    /\ staleRead' = [q \in Procs |->
                        staleRead[q] \/ (pc[q] = "l_set" /\ store' # store)]
    /\ WriteStep
    /\ UNCHANGED <<nextId, cache, cacheUp, storeUp, serial, op, pending, todos,
                   storeAcc, cacheAcc, expect, probed, filledStale, expired>>

\* The cache delete that ends a write handler, and the handler's return.
Invalidate(p, status, body) ==
    /\ Delivered
    /\ cacheAcc' = [cacheAcc EXCEPT ![p] = @ + 1]
    /\ IF cacheUp
       THEN /\ InvalidateCache
            /\ Reply(p, status, body)
            /\ filledStale' = (filledStale /\ cache' # Absent)
       ELSE \* redis.ConnectionError leaves the handler
            /\ Reply(p, 500, JError)
            /\ UNCHANGED <<cache, filledStale>>
    /\ WriteStep
    /\ UNCHANGED <<store, nextId, cacheUp, storeUp, serial, op, pending, conn, todos,
                   storeAcc, staleRead, expect, probed, expired>>

\* create_todo, lines 102-104.
CreateCommit(p) ==
    /\ pc[p] = "c_commit"
    /\ Commit(p, "c_inval")

\* create_todo, lines 106-109.
CreateInvalidate(p) ==
    /\ pc[p] = "c_inval"
    /\ Invalidate(p, 201, JsonifyTodo(pending[p].row))

\* ------------------------------------------------------------- update()
\* Field sets a PUT body carries: title only, completed only, both.
UpdateFields ==
    {[title |-> "b", completed |-> Null],
     [title |-> Null, completed |-> True],
     [title |-> "b", completed |-> True]}

\* Variant: the handler reads the row with a SELECT before its UPDATE.
UpdateExecReadsFirst(p, i, f) ==
    /\ Begin(p, [name |-> "update", id |-> i,
                 title |-> f.title, completed |-> f.completed])
    /\ ~RowLocked(p, i)
    /\ WriteStep
    /\ IF storeUp
       THEN /\ pending' = [pending EXCEPT ![p] =
                  IF SelectById(store, i) # NoRow
                  THEN [kind |-> "update",
                        row |-> UpdatedRow(store[i], f.title, f.completed)]
                  ELSE NoPending]
            /\ conn' = [conn EXCEPT ![p] = "tx"]
            /\ storeAcc' = [storeAcc EXCEPT ![p] = @ + 2]
            /\ pc' = [pc EXCEPT ![p] = "u_commit"]
            /\ UNCHANGED resp
       ELSE /\ StoreError(p)
            /\ UNCHANGED <<pending, storeAcc>>
    /\ UNCHANGED <<shared, todos, cacheAcc,
                   staleRead, expect, probed, filledStale, expired>>

\* update_todo, lines 141-146: UPDATE ... WHERE id = %s RETURNING *.
UpdateExec(p, i, f) ==
    /\ Begin(p, [name |-> "update", id |-> i,
                 title |-> f.title, completed |-> f.completed])
    /\ ~RowLocked(p, i)
    /\ WriteStep
    /\ IF storeUp
       THEN /\ pending' = [pending EXCEPT ![p] =
                  IF SelectById(store, i) # NoRow
                  THEN [kind |-> "update",
                        row |-> UpdatedRow(store[i], f.title, f.completed)]
                  ELSE NoPending]
            /\ conn' = [conn EXCEPT ![p] = "tx"]
            /\ storeAcc' = [storeAcc EXCEPT ![p] = @ + 1]
            /\ pc' = [pc EXCEPT ![p] = "u_commit"]
            /\ UNCHANGED resp
       ELSE /\ StoreError(p)
            /\ UNCHANGED <<pending, storeAcc>>
    /\ UNCHANGED <<shared, todos, cacheAcc,
                   staleRead, expect, probed, filledStale, expired>>

\* update_todo, lines 147-149.
UpdateCommit(p) ==
    /\ pc[p] = "u_commit"
    /\ Commit(p, "u_inval")

\* Variant: update_todo returns the row without the cache delete.
UpdateReturnsOnly(p) ==
    /\ Delivered
    /\ pc[p] = "u_inval"
    /\ Reply(p, 200, JsonifyTodo(pending[p].row))
    /\ WriteStep
    /\ UNCHANGED <<shared, op, pending, conn, todos, storeAcc, cacheAcc,
                   staleRead, expect, probed, filledStale, expired>>

\* update_todo, lines 151-152.
UpdateInvalidate(p) ==
    /\ pc[p] = "u_inval"
    /\ Invalidate(p, 200, JsonifyTodo(pending[p].row))

\* ------------------------------------------------------------- delete()
\* delete_todo, lines 156-158: DELETE FROM todos WHERE id = %s.
DeleteExec(p, i) ==
    /\ Begin(p, [NoOp EXCEPT !.name = "delete", !.id = i])
    /\ ~RowLocked(p, i)
    /\ WriteStep
    /\ IF storeUp
       THEN /\ pending' = [pending EXCEPT ![p] =
                  IF SelectById(store, i) # NoRow
                  THEN [kind |-> "delete", row |-> store[i]]
                  ELSE NoPending]
            /\ conn' = [conn EXCEPT ![p] = "tx"]
            /\ storeAcc' = [storeAcc EXCEPT ![p] = @ + 1]
            /\ pc' = [pc EXCEPT ![p] = "d_commit"]
            /\ UNCHANGED resp
       ELSE /\ StoreError(p)
            /\ UNCHANGED <<pending, storeAcc>>
    /\ UNCHANGED <<shared, todos, cacheAcc,
                   staleRead, expect, probed, filledStale, expired>>

\* delete_todo, lines 159-161.
DeleteCommit(p) ==
    /\ pc[p] = "d_commit"
    /\ Commit(p, "d_inval")

\* delete_todo, lines 163-164.
DeleteInvalidate(p) ==
    /\ pc[p] = "d_inval"
    /\ Invalidate(p, 200, JMessage)

\* Variant: the handler drops the list entry as the write handlers do.
GetTodoInvalidates(p, i) ==
    /\ Begin(p, [NoOp EXCEPT !.name = "get", !.id = i])
    /\ storeAcc' = [storeAcc EXCEPT ![p] = @ + 1]
    /\ cacheAcc' = [cacheAcc EXCEPT ![p] = @ + 1]
    /\ conn' = [conn EXCEPT ![p] = "closed"]
    /\ InvalidateCache
    /\ Reply(p, 200, JsonifyTodo(SelectById(store, i)))
    /\ UNCHANGED <<store, nextId, cacheUp, storeUp, serial, pending, todos,
                   history>>

\* ---------------------------------------------------------------- get()
\* get_todo, lines 130-137: SELECT ... WHERE id = %s, fetchone(), answer.
GetTodo(p, i) ==
    /\ Begin(p, [NoOp EXCEPT !.name = "get", !.id = i])
    /\ IF storeUp
       THEN /\ storeAcc' = [storeAcc EXCEPT ![p] = @ + 1]
            /\ conn' = [conn EXCEPT ![p] = "closed"]
            /\ Reply(p, 200, JsonifyTodo(SelectById(store, i)))
       ELSE /\ StoreError(p)
            /\ UNCHANGED storeAcc
    /\ UNCHANGED <<shared, pending, todos, cacheAcc, history>>

\* ----------------------------------------------------------- environment
\* The client has its response; the worker is free for the next request.
Respond(p) ==
    /\ pc[p] = "done"
    /\ pc' = [pc EXCEPT ![p] = "idle"]
    /\ op' = [op EXCEPT ![p] = NoOp]
    /\ pending' = [pending EXCEPT ![p] = NoPending]
    /\ conn' = [conn EXCEPT ![p] = "none"]
    /\ todos' = [todos EXCEPT ![p] = <<>>]
    /\ resp' = [resp EXCEPT ![p] = NoResp]
    /\ storeAcc' = [storeAcc EXCEPT ![p] = 0]
    /\ cacheAcc' = [cacheAcc EXCEPT ![p] = 0]
    /\ expect' = [expect EXCEPT ![p] = NoBody]
    /\ probed' = [probed EXCEPT ![p] = NoProbe]
    /\ UNCHANGED <<shared, staleRead, lastMiss, filledStale, expired>>

\* Time passes; redis drops a key whose expiry has been reached.
Tick ==
    /\ Delivered
    /\ cache # Absent
    /\ cache.age + TickStep <= MaxAge
    /\ IF cache.ex > 0 /\ cache.age + TickStep >= cache.ex
       THEN /\ cache' = Absent
            /\ lastMiss' = NoBody
            /\ filledStale' = FALSE
            /\ expired' = TRUE
       ELSE /\ cache' = [cache EXCEPT !.age = @ + TickStep]
            /\ UNCHANGED <<lastMiss, filledStale, expired>>
    /\ UNCHANGED <<store, nextId, cacheUp, storeUp, serial, locals,
                   staleRead, expect, probed>>

\* The cache engine becomes unreachable, or reachable again.
CacheFails ==
    /\ Delivered
    /\ cacheUp
    /\ cacheUp' = FALSE
    /\ UNCHANGED <<store, nextId, cache, storeUp, serial, locals, history>>

CacheRecovers ==
    /\ Delivered
    /\ ~cacheUp
    /\ cacheUp' = TRUE
    /\ UNCHANGED <<store, nextId, cache, storeUp, serial, locals, history>>

\* The store becomes unreachable (or fails every statement), or recovers.
StoreFails ==
    /\ Delivered
    /\ storeUp
    /\ storeUp' = FALSE
    /\ UNCHANGED <<store, nextId, cache, cacheUp, serial, locals, history>>

StoreRecovers ==
    /\ Delivered
    /\ ~storeUp
    /\ storeUp' = TRUE
    /\ UNCHANGED <<store, nextId, cache, cacheUp, serial, locals, history>>

\* Another client of the cache engine leaves text under the key that is
\* not a JSON document.
CacheCorrupted ==
    /\ Delivered
    /\ cacheUp
    /\ \E text \in {Garbage, EmptyText} :
         cache' = [val |-> text, age |-> 0, ex |-> TTL]
    /\ cache' # cache
    /\ lastMiss' = NoBody
    /\ filledStale' = FALSE
    /\ expired' = FALSE
    /\ UNCHANGED <<store, nextId, cacheUp, storeUp, serial, locals,
                   staleRead, expect, probed>>

\* -------------------------------------------------------- specifications
Next ==
    \/ \E p \in Procs : ListProbe(p)
    \/ \E p \in Procs : ListSelect(p)
    \/ \E p \in Procs : ListSet(p)
    \/ \E p \in Procs, t \in {"a", NoTitle} : CreateExec(p, t)
    \/ \E p \in Procs : CreateCommit(p)
    \/ \E p \in Procs : CreateInvalidate(p)
    \/ \E p \in Procs, i \in Ids, f \in UpdateFields : UpdateExec(p, i, f)
    \/ \E p \in Procs : UpdateCommit(p)
    \/ \E p \in Procs : UpdateInvalidate(p)
    \/ \E p \in Procs, i \in Ids : DeleteExec(p, i)
    \/ \E p \in Procs : DeleteCommit(p)
    \/ \E p \in Procs : DeleteInvalidate(p)
    \/ \E p \in Procs, i \in Ids : GetTodo(p, i)
    \/ \E p \in Procs : Respond(p)
    \/ Tick

\* The service with both engines healthy.
Spec == Init /\ [][Next]_vars

\* The same service when its clients never overlap two requests.
SpecSerial == InitSerial /\ [][Next]_vars

NextFault ==
    \/ Next
    \/ CacheFails
    \/ CacheRecovers
    \/ CacheCorrupted
    \/ StoreFails
    \/ StoreRecovers

\* The service as deployed, with time that keeps passing and responses that
\* are delivered once a handler has returned.
SpecLive ==
    /\ Init
    /\ [][Next]_vars
    /\ SF_vars(Tick)
    /\ \A p \in Procs : WF_vars(Respond(p))

\* The rows a table can hold under one id: any title, either completed
\* value, any timestamp.
RoundTripRows(i) ==
    {[id |-> i, title |-> t, completed |-> c, created_at |-> d] :
        t \in {"a", "b"}, c \in {True, False}, d \in RoundTripStamps}

\* A table of any such rows, and nothing in the cache.
InitRoundTrip ==
    /\ store \in [Ids -> UNION {RoundTripRows(i) : i \in Ids} \cup {NoRow}]
    /\ \A i \in Ids : store[i] = NoRow \/ store[i].id = i
    /\ nextId = MaxId + 1
    /\ Settled
    /\ serial = TRUE

\* list() requests only: the first fills the entry from the table, the
\* ones after it are served from the entry until it expires.
NextRoundTrip ==
    \/ \E p \in Procs : ListProbe(p)
    \/ \E p \in Procs : ListSelect(p)
    \/ \E p \in Procs : ListSet(p)
    \/ \E p \in Procs : Respond(p)
    \/ Tick

SpecRoundTrip == InitRoundTrip /\ [][NextRoundTrip]_vars

\* The service with engines that can fail and a key that can hold foreign
\* text, one request at a time: how a single request fares when an engine
\* fails it.
SpecFault == InitSerial /\ [][NextFault]_vars

\* ---------------------------------------------------------------- claims
\* The rows of the table, and the text a list() would store for them.
StoreRows == RowsFrom(store, 1)
StoreText == Dumps(StoreRows)

ListDone(p) == pc[p] = "done" /\ op[p].name = "list"
Writes == {"create", "update", "delete"}
\* A writer that has committed and has not yet issued its cache delete.
Invalidating(q) == pc[q] \in {"c_inval", "u_inval", "d_inval"}

\* C1 (SpecSerial): when requests do not overlap, every list() answers with
\* the rows the table holds when it answers, rendered from the table or
\* from an entry that serializes exactly those rows; a snapshot taken
\* before the last write is never served.
C1_InvalidationOnWrite ==
    \A p \in Procs :
        ListDone(p) =>
            /\ resp[p].status = 200
            /\ resp[p].body \in {JsonifyRows(StoreRows), JsonifyCached(StoreText)}

\* C1 witness: a list() that went to the table after an update and answers
\* with the updated row.
C1_Witness ==
    \E p \in Procs :
        /\ ListDone(p)
        /\ storeAcc[p] = 1
        /\ StoreRows # <<>>
        /\ StoreRows[1].title = "b"
        /\ resp[p].body = JsonifyRows(StoreRows)

\* C2, as claimed: a list() that follows a miss with no write and no expiry
\* in between makes no store access and answers with the same content as
\* the miss did.
C2_CachePopulation ==
    \A p \in Procs :
        (ListDone(p) /\ expect[p] # NoBody) =>
            /\ storeAcc[p] = 0
            /\ resp[p].body = expect[p]

\* C3: a write handler issues its cache delete only after its statement
\* has been executed and committed and its connection closed; no cache
\* command of any handler runs inside that handler's store transaction.
C3_WriteOrdering ==
    [][\A p \in Procs :
          cacheAcc'[p] = cacheAcc[p] + 1 =>
              /\ conn[p] # "tx" /\ conn'[p] # "tx"
              /\ op'[p].name \in Writes =>
                    storeAcc[p] = 1 /\ conn[p] = "closed"]_vars

\* C3 witness: an update that matched a row has committed and then deleted
\* the key.
C3_Witness ==
    \E p \in Procs :
        /\ pc[p] = "done"
        /\ op[p].name = "update"
        /\ pending[p].kind = "update"
        /\ store[pending[p].row.id] = pending[p].row
        /\ cacheAcc[p] = 1
        /\ resp[p].status = 200
        /\ cache = Absent

\* C4, as claimed: once no writer stands between its commit and its cache
\* delete, the entry, if present, holds the rows of the table.
C4_RacingReader ==
    ((\A q \in Procs : ~Invalidating(q)) /\ cache # Absent) =>
        cache.val = StoreText

\* C4, amended: once no writer stands between its commit and its cache
\* delete, an entry stored by a list() with no commit between its store
\* read and its cache set holds the rows of the table.
C4_RacingReaderAmended ==
    ((\A q \in Procs : ~Invalidating(q)) /\ cache # Absent /\ ~filledStale) =>
        cache.val = StoreText

\* C4 witness: a reader that missed has read the committed row while the
\* writer has not yet deleted the key.
C4_Witness ==
    \E p, q \in Procs :
        /\ pc[p] = "l_set"
        /\ Invalidating(q)
        /\ pending[q].kind # "none"
        /\ todos[p] = StoreRows
        /\ ~staleRead[p]

\* C5: a list() that stores a snapshot differing from the table read the
\* table before a commit that changed it; a list() with no commit after
\* its read stores the rows the table holds.
C5_RaceCharacterisation ==
    [][\A p \in Procs :
          (pc[p] = "l_set" /\ pc'[p] = "done" /\ cache' # Absent
             /\ cache'.val # StoreText) => staleRead[p]]_vars

\* C5 witness: the entry holds a snapshot from before a commit, stored
\* after that commit.
C5_Witness ==
    /\ cache # Absent
    /\ filledStale
    /\ cache.val # StoreText
    /\ \A q \in Procs : ~Invalidating(q)

\* C6, as claimed: a step of update, delete or get whose statement matched
\* no row leaves the key as it was.
C6_NoInvalidationWithoutWrite ==
    [][\A p \in Procs :
          (pc'[p] # pc[p] /\ op'[p].name \in {"update", "delete", "get"}
             /\ pending'[p].kind = "none") => cache' = cache]_vars

\* C7: while the last miss answered with the empty sequence, the key
\* exists and holds non-empty text, and a list() probing it makes no store
\* access and answers with the empty sequence.
C7_EmptyCollectionCaching ==
    /\ lastMiss = JArray(<<>>) =>
          (cache # Absent /\ cache.val = Dumps(<<>>) /\ cache.val # EmptyText)
    /\ \A p \in Procs :
          (ListDone(p) /\ expect[p] = JArray(<<>>)) =>
              /\ storeAcc[p] = 0
              /\ cacheAcc[p] = 1
              /\ resp[p] = [status |-> 200, body |-> JArray(<<>>)]

\* C7 witness: a second list() on the empty table answered from the entry.
C7_Witness ==
    \E p \in Procs :
        /\ ListDone(p)
        /\ expect[p] = JArray(<<>>)
        /\ probed[p].how = "entry"
        /\ storeAcc[p] = 0
        /\ resp[p].body = JArray(<<>>)

\* C8: every entry carries the 60 second expiry and is younger than that;
\* list() is only ever served an entry younger than 60 seconds; a list()
\* that finds the entry run out reads the table and stores a fresh
\* snapshot with the expiry.
C8_TTLExpiry ==
    /\ cache # Absent => (cache.ex = 60 /\ cache.age < 60)
    /\ \A p \in Procs :
          ListDone(p) =>
              /\ probed[p].how = "entry" => probed[p].age < 60
              /\ probed[p].how = "expired" =>
                    /\ storeAcc[p] = 1
                    /\ resp[p] = [status |-> 200, body |-> JsonifyRows(todos[p])]
                    /\ cache = [val |-> Dumps(todos[p]), age |-> 0, ex |-> 60]

\* C8 witness: an entry was served at an age above zero, ran out later, and
\* the next list() has read the table and stored it again.
C8_Witness ==
    \E p \in Procs :
        /\ ListDone(p)
        /\ probed[p].how = "expired"
        /\ storeAcc[p] = 1
        /\ todos[p] # <<>>
        /\ cache # Absent

\* C9: the key's value changes only by removal, by ageing, or by a list()
\* that stores the serialization of the rows its own SELECT returned;
\* steps of create, update and delete only ever remove the key.
C9_CacheProvenance ==
    [][/\ \A p \in Procs :
            (pc[p] # "l_set" /\ pc'[p] = "l_set") =>
                todos'[p] = StoreRows
       /\ cache' # cache =>
            \/ cache' = Absent
            \/ cache # Absent /\ cache'.val = cache.val /\ cache'.ex = cache.ex
            \/ \E p \in Procs :
                 /\ pc[p] = "l_set" /\ pc'[p] = "done"
                 /\ storeAcc[p] = 1
                 /\ cache'.val = Dumps(todos[p])
       /\ \A p \in Procs :
            (pc'[p] # pc[p] /\ op'[p].name \in Writes) =>
                cache' \in {cache, Absent}]_vars

\* C9 witness: the entry holds the serialization of the row a list() read.
C9_Witness ==
    \E p \in Procs :
        /\ ListDone(p)
        /\ storeAcc[p] = 1
        /\ todos[p] # <<>>
        /\ cache # Absent
        /\ cache.val = Dumps(todos[p])

\* C10, as claimed (SpecFault): a list() whose cache read failed or met
\* text that is not JSON answers 200 with the rows of the table, read from
\* the table.
C10_ReadPathDegradation ==
    \A p \in Procs :
        (ListDone(p) /\ probed[p].how \in {"unreachable", "malformed"}) =>
            /\ resp[p].status = 200
            /\ storeAcc[p] = 1
            /\ resp[p].body = JsonifyRows(StoreRows)

\* C11, as claimed (SpecFault): a create, update or delete whose transaction
\* committed and whose cache delete then failed is still answered as a
\* success (201 for create, 200 for update and delete).
C11_WritePathCacheFailure ==
    \A p \in Procs :
        ( /\ pc[p] = "done"
          /\ op[p].name \in Writes
          /\ conn[p] = "closed"
          /\ cacheAcc[p] = 1
          /\ ~cacheUp ) =>
            resp[p].status = IF op[p].name = "create" THEN 201 ELSE 200

\* C12 (SpecFault): a list() that missed the cache and whose store read
\* failed answers with an error, never with a sequence of rows (empty or
\* not); its only cache command is the read of the key, and the step on
\* which the store read fails leaves the cache as it was.
C12_StoreFailureOnList ==
    [][\A p \in Procs :
          (pc[p] = "l_select" /\ ~storeUp /\ pc'[p] # pc[p]) =>
              /\ pc'[p] = "done"
              /\ resp'[p].status = 500
              /\ resp'[p].body = JError
              /\ cacheAcc'[p] = 1
              /\ cache' = cache]_vars

\* C12 witness: a list() has answered after its store read failed, while an
\* entry that a read after it could have overwritten is absent.
C12_Witness ==
    \E p \in Procs :
        /\ ListDone(p)
        /\ conn[p] = "failed"
        /\ probed[p].how = "absent"
        /\ cache = Absent

\* C13, as claimed (SpecSerial): a create() without a title ends with no
\* store connection opened, no statement run and no cache command issued.
C13_ValidationBeforeAccess ==
    \A p \in Procs :
        (pc[p] = "done" /\ op[p].name = "create" /\ op[p].title = NoTitle) =>
            /\ conn[p] = "none"
            /\ storeAcc[p] = 0
            /\ cacheAcc[p] = 0

\* C14, as claimed (SpecSerial): a get(id), update(id, ...) or delete(id)
\* whose id matches no row does not answer as it answers when a row
\* matched, which is 200 with the row for get and update and 200 with the
\* 'deleted' message for delete.
C14_NotFoundOutcome ==
    \A p \in Procs :
        ( /\ pc[p] = "done"
          /\ conn[p] = "closed"
          /\ \/ op[p].name = "get" /\ SelectById(store, op[p].id) = NoRow
             \/ op[p].name \in {"update", "delete"} /\ pending[p] = NoPending ) =>
            ~(resp[p].status = 200 /\ resp[p].body.kind \in {"object", "message"})

C16_GetIsCacheFree ==
    [][\A p \in Procs :
          (op'[p].name = "get" /\ pc'[p] = "done" /\ pc[p] # "done") =>
              /\ cache' = cache
              /\ store' = store
              /\ cacheAcc'[p] = 0
              /\ storeAcc'[p] = 1
              /\ resp'[p].body =
                    IF \E r \in {store[k] : k \in Ids} :
                           r # NoRow /\ r.id = op'[p].id
                    THEN JObject(DumpRow(store[op'[p].id]))
                    ELSE JNull]_vars

\* C16 witness: a get() of a row that exists has answered while the cache
\* holds an entry.
C16_Witness ==
    \E p \in Procs :
        /\ pc[p] = "done"
        /\ op[p].name = "get"
        /\ resp[p].body.kind = "object"
        /\ cacheAcc[p] = 0
        /\ cache # Absent

\* C17, as claimed (SpecRoundTrip): when a list() is served from the entry
\* that a miss wrote from the rows the table holds, the rows parsed from
\* the entry equal the rows of the table in every field, created_at
\* included, and the response equals the response of the miss.
C17_RoundTripFidelity ==
    \A p \in Procs :
        ( /\ ListDone(p)
          /\ probed[p].how = "entry"
          /\ cache # Absent
          /\ cache.val = Dumps(StoreRows) ) =>
            /\ Len(Loads(cache.val)) = Len(StoreRows)
            /\ \A i \in 1..Len(StoreRows) :
                  /\ Loads(cache.val)[i].id = StoreRows[i].id
                  /\ Loads(cache.val)[i].title = StoreRows[i].title
                  /\ Loads(cache.val)[i].completed = StoreRows[i].completed
                  /\ Loads(cache.val)[i].created_at = StoreRows[i].created_at
            /\ resp[p].body = JsonifyRows(StoreRows)

\* C18, as claimed (SpecSerial): when an update() that supplies only one of
\* title and completed commits on an existing row, the row takes the
\* supplied value in that field and keeps its prior id, created_at and
\* other field.
C18_PartialUpdateFrame ==
    [][\A p \in Procs :
          ( /\ pc[p] = "u_commit"
            /\ pc'[p] = "u_inval"
            /\ pending[p].kind = "update"
            /\ (op[p].title = Null) # (op[p].completed = Null) ) =>
              /\ store'[op[p].id].id = store[op[p].id].id
              /\ store'[op[p].id].created_at = store[op[p].id].created_at
              /\ store'[op[p].id].title =
                    IF op[p].title = Null THEN store[op[p].id].title
                    ELSE op[p].title
              /\ store'[op[p].id].completed =
                    IF op[p].completed = Null THEN store[op[p].id].completed
                    ELSE op[p].completed]_vars

\* No write is in flight.
WritesOver == \A p \in Procs : op[p].name \notin Writes
\* Every list() that has answered shows the rows the table holds.
ListsCurrent ==
    \A p \in Procs :
        ListDone(p) =>
            resp[p].body \in {JsonifyRows(StoreRows), JsonifyCached(StoreText)}

\* C19 (SpecLive): every entry under the key carries the 60-second expiry
\* and is younger than 60 seconds, whatever it holds; and in every
\* interleaving, if from some point on no write is in flight, then from
\* some point on every list() answers with the rows the table holds.
C19_BoundedStaleness ==
    /\ [](cache # Absent => (cache.ex = TTL /\ cache.age < TTL))
    /\ (<>[]WritesOver) => <>[]ListsCurrent

\* C19 witness: with every request answered, an entry filled by a list()
\* that a write overtook still differs from the table, half its lifetime
\* gone.
C19_Witness ==
    /\ \A p \in Procs : pc[p] = "idle"
    /\ cache # Absent
    /\ filledStale
    /\ cache.val # StoreText
    /\ cache.age > 0

====
